---- MODULE Spec2Model ----
(***************************************************************************)
(* Model of the ProblemMap analysis pipeline: the text classifier          *)
(* (analyzeProblem), the cluster engine (clusterProblems and               *)
(* createFallbackClusters), the match scorer (getMatchingEntrepreneurs)    *)
(* the similarity detector (checkSimilarity) and the routes that persist    *)
(* problems and votes.                                                     *)
(*                                                                         *)
(* JavaScript values are modelled as follows.  A string is a TLA+ string.  *)
(* An array is a sequence.  A parsed JSON object is a record whose DOMAIN  *)
(* is the set of keys the object has, so that a missing key reads as       *)
(* undefined.  A nullable table column is <<>> for SQL NULL and <<v>> for  *)
(* the value v.                                                            *)
(***************************************************************************)
EXTENDS Integers, Sequences, FiniteSets, TLC

VARIABLES op, arg, svc, ret, calls, problems, entrepreneurs, votes

vars == <<op, arg, svc, ret, calls, problems, entrepreneurs, votes>>

(***************************************************************************)
(* Bounds of the model.                                                    *)
(***************************************************************************)
MaxOver == 2
MaxExtraKeywords == 1
MaxChannels == 2
MaxBatch == 3
MaxResponseClusters == 2
MaxRoster == 3

(***************************************************************************)
(* Strings.                                                                *)
(***************************************************************************)
Null == <<>>
Some(v) == <<v>>

Upper == <<"A","B","C","D","E","F","G","H","I","J","K","L","M",
           "N","O","P","Q","R","S","T","U","V","W","X","Y","Z">>
Lower == <<"a","b","c","d","e","f","g","h","i","j","k","l","m",
           "n","o","p","q","r","s","t","u","v","w","x","y","z">>

LowerChar(c) ==
  IF \E i \in 1..26 : Upper[i] = c
    THEN Lower[CHOOSE i \in 1..26 : Upper[i] = c]
    ELSE c

UpperChar(c) ==
  IF \E i \in 1..26 : Lower[i] = c
    THEN Upper[CHOOSE i \in 1..26 : Lower[i] = c]
    ELSE c

RECURSIVE toLowerCase(_)
toLowerCase(s) ==
  IF s = "" THEN ""
  ELSE LowerChar(SubSeq(s, 1, 1)) \o toLowerCase(SubSeq(s, 2, Len(s)))

\* String.prototype.includes: needle occurs in hay as a contiguous substring.
includes(hay, needle) ==
  \E i \in 0..(Len(hay) - Len(needle)) :
    SubSeq(hay, i + 1, i + Len(needle)) = needle

SeqsUpTo(S, n) == UNION {[1..m -> S] : m \in 0..n}

Digits10 == "1234567890"
Digits50 == Digits10 \o Digits10 \o Digits10 \o Digits10 \o Digits10
Digits250 == Digits50 \o Digits50 \o Digits50 \o Digits50 \o Digits50

\* A text of n characters (n <= 250) whose i-th character is the last digit of i.
TextOfLen(n) == SubSeq(Digits250, 1, n)

(***************************************************************************)
(* The text classifier.                                                    *)
(***************************************************************************)
SummaryLimit == 200
MaxKeywords == 5

KeywordPool == <<"road", "health", "school", "water", "tax", "web", "air">>
KeywordList(n) == [i \in 1..n |-> KeywordPool[i]]

\* JSON.parse("null")
JsNull == [jsnull |-> TRUE]

TextLengths == {1, 49, 50} \cup ((SummaryLimit - 1)..(SummaryLimit + MaxOver))
Texts == {TextOfLen(n) : n \in TextLengths}
Sources == {"User", "Reddit"}

ServiceKeywordLists ==
  {KeywordList(n) : n \in {0, 1, MaxKeywords} \cup
                          ((MaxKeywords + 1)..(MaxKeywords + MaxExtraKeywords))}
ServiceCategories == {"Healthcare", "Other", "Finance", ""}
ServiceSummaries == {"A short summary."}

\* What one call of ai.models.generateContent for analyzeProblem can give:
\* the call rejects, response.text is empty, response.text is not JSON, or
\* response.text parses to null or to an object with some of the three keys.
AnalysisResponses ==
  {[kind |-> "throw"], [kind |-> "empty"], [kind |-> "notjson"],
   [kind |-> "json", value |-> JsNull]}
  \cup {[kind |-> "json",
         value |-> [summary |-> s, keywords |-> k, category |-> c]] :
          s \in ServiceSummaries, k \in ServiceKeywordLists,
          c \in ServiceCategories}
  \cup {[kind |-> "json", value |-> [summary |-> s, category |-> c]] :
          s \in ServiceSummaries, c \in ServiceCategories}
  \cup {[kind |-> "json", value |-> [summary |-> s, keywords |-> k]] :
          s \in ServiceSummaries, k \in ServiceKeywordLists}
  \cup {[kind |-> "json", value |-> [keywords |-> k, category |-> c]] :
          k \in ServiceKeywordLists, c \in ServiceCategories}
  \cup {[kind |-> "json", value |-> [summary |-> s]] : s \in ServiceSummaries}

fallbackAnalysis_TruncatesAt200(text) ==
  [summary  |-> IF Len(text) >= SummaryLimit
                  THEN SubSeq(text, 1, SummaryLimit) \o "..."
                  ELSE text,
   keywords |-> <<>>,
   category |-> "Other"]

\* The catch block of analyzeProblem.
fallbackAnalysis(text) ==
  [summary  |-> IF Len(text) > SummaryLimit
                  THEN SubSeq(text, 1, SummaryLimit) \o "..."
                  ELSE text,
   keywords |-> <<>>,
   category |-> "Other"]

\* The try block of analyzeProblem: the awaited call, the test of
\* response.text and JSON.parse.  The parsed value is returned unexamined.
\* calls counts the calls of ai.models.generateContent.
analyzeProblemTry(text, source, resp) ==
  CASE resp.kind = "throw"   -> [threw |-> TRUE, calls |-> 1]
    [] resp.kind = "empty"   -> [threw |-> TRUE, calls |-> 1]
    [] resp.kind = "notjson" -> [threw |-> TRUE, calls |-> 1]
    [] resp.kind = "json"    ->
         [threw |-> FALSE, value |-> resp.value, calls |-> 1]

analyzeProblem_FallbackBySource(text, source, resp) ==
  LET attempt == analyzeProblemTry(text, source, resp)
  IN  IF attempt.threw
        THEN [threw |-> FALSE,
              value |-> [fallbackAnalysis(text) EXCEPT
                           !.category = IF source = "Reddit"
                                          THEN "Technology" ELSE "Other"],
              calls |-> attempt.calls]
        ELSE attempt

analyzeProblem_RetriesOnce(text, source, resp) ==
  LET attempt == analyzeProblemTry(text, source, resp)
  IN  IF attempt.threw
        THEN [threw |-> FALSE, value |-> fallbackAnalysis(text),
              calls |-> attempt.calls + 1]
        ELSE attempt

\* analyzeProblem: the try block, and the catch block that answers the
\* fallback analysis for anything the try block threw.
analyzeProblem(text, source, resp) ==
  LET attempt == analyzeProblemTry(text, source, resp)
  IN  IF attempt.threw
        THEN [threw |-> FALSE, value |-> fallbackAnalysis(text),
              calls |-> attempt.calls]
        ELSE attempt

(***************************************************************************)
(* The cluster engine.                                                     *)
(***************************************************************************)
SmallBatch == 3
SmallBatchGap == 7
FallbackGap == 6
MiscellaneousGap == 5

slice0_Whole(a, n) == a

\* Array.prototype.slice(0, n)
slice0(a, n) == IF Len(a) > n THEN SubSeq(a, 1, n) ELSE a

\* a[0] || dflt for an array of strings: undefined and "" are both falsy.
FirstOr(a, dflt) == IF Len(a) > 0 /\ a[1] # "" THEN a[1] ELSE dflt

\* clusters.flatMap(c => c.problemIds), as the set the ids are put in.  An
\* element without problemIds contributes undefined, which is no input id.
RECURSIVE ClusteredIds(_)
ClusteredIds(clusters) ==
  IF clusters = <<>> THEN {}
  ELSE LET c == Head(clusters)
       IN  (IF "problemIds" \in DOMAIN c
              THEN {c.problemIds[i] : i \in 1..Len(c.problemIds)} ELSE {})
           \cup ClusteredIds(Tail(clusters))

\* The first occurrences of the values of a sequence, in order: the key
\* order of the Map that createFallbackClusters fills.
RECURSIVE Distinct(_)
Distinct(a) ==
  IF a = <<>> THEN <<>>
  ELSE LET rest == Distinct(SubSeq(a, 1, Len(a) - 1))
           last == a[Len(a)]
       IN  IF \E i \in 1..Len(rest) : rest[i] = last THEN rest
           ELSE Append(rest, last)

Capitalized(keyword) ==
  UpperChar(SubSeq(keyword, 1, 1)) \o SubSeq(keyword, 2, Len(keyword))

primaryKeyword(problem) == FirstOr(problem.keywords, "other")

createFallbackClusters(batch) ==
  LET primary == [i \in 1..Len(batch) |-> primaryKeyword(batch[i])]
      keys    == Distinct(primary)
      ids(k)  == LET members == SelectSeq(batch,
                                  LAMBDA p : primaryKeyword(p) = k)
                 IN  [i \in 1..Len(members) |-> members[i].id]
  IN  [g \in 1..Len(keys) |->
         [clusterName    |-> Capitalized(keys[g]) \o " Related Issues",
          problemIds     |-> ids(keys[g]),
          commonThemes   |-> <<keys[g], "user-reported", "community-driven">>,
          innovationGaps |-> FallbackGap]]

\* The path of clusterProblems for fewer than three problems.
SingletonClusters(batch) ==
  [i \in 1..Len(batch) |->
     [clusterName    |-> FirstOr(batch[i].keywords, "Miscellaneous Issues"),
      problemIds     |-> <<batch[i].id>>,
      commonThemes   |-> slice0(batch[i].keywords, 3),
      innovationGaps |-> SmallBatchGap]]

MissingIds_All(allIds, clustered) == allIds

MissingIds_None(allIds, clustered) == <<>>

\* Array.from(allIds).filter(id => !clusteredIds.has(id))
MissingIds(allIds, clustered) ==
  SelectSeq(allIds, LAMBDA id : id \notin clustered)

HasMembers_KeepsAll(c) == TRUE

\* c.problemIds.length > 0
HasMembers(c) == Len(c.problemIds) > 0

\* The validation of a parsed cluster array: the ids no cluster names are
\* pushed as one more cluster, then clusters without members are dropped.
\* Reading c.problemIds.length of an element without problemIds throws.
ValidatedClusters(batch, clusters) ==
  LET allIds     == [i \in 1..Len(batch) |-> batch[i].id]
      clustered  == ClusteredIds(clusters)
      missingIds == MissingIds(allIds, clustered)
      pushed     == IF Len(missingIds) > 0
                      THEN Append(clusters,
                             [clusterName    |-> "Miscellaneous Issues",
                              problemIds     |-> missingIds,
                              commonThemes   |-> <<"other", "miscellaneous">>,
                              innovationGaps |-> MiscellaneousGap])
                      ELSE clusters
  IN  IF \E i \in 1..Len(pushed) : "problemIds" \notin DOMAIN pushed[i]
        THEN [threw |-> TRUE]
        ELSE [threw |-> FALSE,
              value |-> SelectSeq(pushed, HasMembers)]

IsSmallBatch_BelowTwo(batch) == Len(batch) < SmallBatch - 1

\* problems.length < 3
IsSmallBatch(batch) == Len(batch) < SmallBatch

\* The try block of clusterProblems.
clusterProblemsTry(batch, resp) ==
  IF IsSmallBatch(batch)
    THEN [threw |-> FALSE, value |-> SingletonClusters(batch), calls |-> 0]
  ELSE CASE resp.kind = "throw"   -> [threw |-> TRUE, calls |-> 1]
         [] resp.kind = "empty"   ->
              [threw |-> FALSE, value |-> createFallbackClusters(batch),
               calls |-> 1]
         [] resp.kind = "notjson" -> [threw |-> TRUE, calls |-> 1]
         [] resp.kind = "json"    ->
              IF ~resp.isArray THEN [threw |-> TRUE, calls |-> 1]
              ELSE LET v == ValidatedClusters(batch, resp.value)
                   IN  IF v.threw THEN [threw |-> TRUE, calls |-> 1]
                       ELSE [threw |-> FALSE, value |-> v.value, calls |-> 1]

\* clusterProblems: the try block, and the catch block that answers the
\* fallback clustering.
clusterProblems(batch, resp) ==
  LET attempt == clusterProblemsTry(batch, resp)
  IN  IF attempt.threw
        THEN [threw |-> FALSE, value |-> createFallbackClusters(batch),
              calls |-> attempt.calls]
        ELSE attempt

(***************************************************************************)
(* Storage and the routes that persist problems.                           *)
(***************************************************************************)
MinTextLength == 50
MinSelftextLength == 50

IdPool == <<"p1", "p2", "p3", "p4", "p5", "p6">>

\* obj[key] of a parsed object, as a nullable column: undefined gives NULL.
Column(obj, key) == IF key \in DOMAIN obj THEN Some(obj[key]) ELSE Null

\* storage.createProblem: the row the insert returns.  The id is generated,
createProblem_ScoreDefaultOnly(table, values) ==
  [id             |-> IdPool[Len(table) + 1],
   source         |-> values.source,
   subreddit      |-> Column(values, "subreddit"),
   authorUsername |-> Column(values, "authorUsername"),
   authorKarma    |-> Column(values, "authorKarma"),
   originalText   |-> values.originalText,
   summary        |-> Column(values, "summary"),
   keywords       |-> Column(values, "keywords"),
   category       |-> Column(values, "category"),
   score          |-> 0,
   processed      |-> IF "processed" \in DOMAIN values THEN values.processed
                      ELSE FALSE]

\* score and processed have column defaults, every other column is nullable.
createProblem(table, values) ==
  [id             |-> IdPool[Len(table) + 1],
   source         |-> values.source,
   subreddit      |-> Column(values, "subreddit"),
   authorUsername |-> Column(values, "authorUsername"),
   authorKarma    |-> Column(values, "authorKarma"),
   originalText   |-> values.originalText,
   summary        |-> Column(values, "summary"),
   keywords       |-> Column(values, "keywords"),
   category       |-> Column(values, "category"),
   score          |-> IF "score" \in DOMAIN values THEN values.score ELSE 0,
   processed      |-> IF "processed" \in DOMAIN values THEN values.processed
                      ELSE FALSE]

Enriched_BodyWins(data, analysis) ==
  LET got == (DOMAIN analysis \cap {"summary", "keywords", "category"})
               \ DOMAIN data
  IN  [k \in DOMAIN data \cup got \cup {"processed"} |->
         IF k \in DOMAIN data THEN data[k]
         ELSE IF k = "processed" THEN TRUE
         ELSE analysis[k]]

\* {...data, summary: analysis.summary, keywords: analysis.keywords,
\*  category: analysis.category, processed: true}: the four keys replace
\* those of data, and a key whose value is undefined is not inserted.
Enriched(data, analysis) ==
  LET kept == DOMAIN data \ {"summary", "keywords", "category", "processed"}
      got  == DOMAIN analysis \cap {"summary", "keywords", "category"}
  IN  [k \in kept \cup got \cup {"processed"} |->
         IF k = "processed" THEN TRUE
         ELSE IF k \in got THEN analysis[k]
         ELSE data[k]]

MinTextMessage == "Problem description must be at least 50 characters"

\* The messages of the issues submitProblemSchema.parse raises, which the
\* message of its error lists.
submitProblemSchemaIssues(body) ==
  (IF "source" \in DOMAIN body THEN <<>> ELSE <<"Required">>)
  \o (IF "originalText" \notin DOMAIN body THEN <<"Required">>
      ELSE IF Len(body.originalText) < MinTextLength THEN <<MinTextMessage>>
      ELSE <<>>)

submitProblemSchemaOk_NoMinLength(body) ==
  /\ "source" \in DOMAIN body
  /\ "originalText" \in DOMAIN body

\* submitProblemSchema.parse: source and originalText are required and
\* originalText has at least 50 characters.
submitProblemSchemaOk(body) ==
  /\ "source" \in DOMAIN body
  /\ "originalText" \in DOMAIN body
  /\ Len(body.originalText) >= MinTextLength

\* The classify-and-persist steps shared by the two routes, for one item:
\* threw is TRUE when reading a property of a null analysis or the insert
\* raised, and then nothing is stored.
ClassifyAndPersist(table, data, source, resp, dbOk) ==
  LET analysis == analyzeProblem(data.originalText, source, resp)
  IN  IF analysis.threw \/ analysis.value = JsNull
        THEN [threw |-> TRUE, table |-> table,
              message |-> "Cannot read properties of null"]
      ELSE IF ~dbOk
        THEN [threw |-> TRUE, table |-> table, message |-> "insert failed"]
        ELSE LET row == createProblem(table, Enriched(data, analysis.value))
             IN  [threw |-> FALSE, table |-> Append(table, row), row |-> row]

(***************************************************************************)
(* The feed ingestion adapter.                                             *)
(***************************************************************************)
PostAccepted_KeepsRemoved(post) ==
  /\ "selftext" \in DOMAIN post
  /\ post.selftext # ""
  /\ Len(post.selftext) > MinSelftextLength
  /\ ~includes(post.selftext, "[deleted]")

\* The filter of fetchRedditData on one post.
PostAccepted(post) ==
  /\ "selftext" \in DOMAIN post
  /\ post.selftext # ""
  /\ Len(post.selftext) > MinSelftextLength
  /\ ~includes(post.selftext, "[removed]")
  /\ ~includes(post.selftext, "[deleted]")

Karma(post, key) == IF key \in DOMAIN post THEN post[key] ELSE 0

\* The InsertProblem pushed for an accepted post.
PostProblem(post) ==
  [source         |-> "Reddit",
   subreddit      |-> post.subreddit,
   authorUsername |-> post.author,
   authorKarma    |-> Karma(post, "author_link_karma")
                        + Karma(post, "author_comment_karma"),
   originalText   |-> post.title \o "\n\n" \o post.selftext,
   summary        |-> Null,
   keywords       |-> Null,
   category       |-> Null,
   score          |-> post.score,
   processed      |-> FALSE]

\* One iteration of the loop over subreddits: a fetch that throws or is not
\* ok contributes nothing.  A channel of kind "broken" answers its posts
\* followed by a wrapper without data: reading post.selftext of it throws
\* into the catch block after the posts before it have been pushed.
ChannelProblems(channel) ==
  IF channel.kind \in {"ok", "broken"}
    THEN LET accepted == SelectSeq(channel.posts, PostAccepted)
         IN  [i \in 1..Len(accepted) |-> PostProblem(accepted[i])]
    ELSE <<>>

RECURSIVE fetchRedditData_StopsAtFault(_)
fetchRedditData_StopsAtFault(feed) ==
  IF feed = <<>> THEN <<>>
  ELSE IF Head(feed).kind \in {"throw", "notok"} THEN <<>>
  ELSE ChannelProblems(Head(feed)) \o fetchRedditData_StopsAtFault(Tail(feed))

\* fetchRedditData: feed[i] is what fetching the i-th subreddit gives.
RECURSIVE fetchRedditData(_)
fetchRedditData(feed) ==
  IF feed = <<>> THEN <<>>
  ELSE ChannelProblems(Head(feed)) \o fetchRedditData(Tail(feed))

RECURSIVE ProcessFeed_AbortsOnFailure(_, _, _, _, _, _)
ProcessFeed_AbortsOnFailure(table, items, resps, dbs, i, processed) ==
  IF i > Len(items) THEN [table |-> table, processed |-> processed]
  ELSE LET step == ClassifyAndPersist(table, items[i], "Reddit",
                                      resps[i], dbs[i])
       IN  IF step.threw
             THEN [table |-> table, processed |-> processed]
             ELSE ProcessFeed_AbortsOnFailure(step.table, items, resps, dbs,
                                              i + 1,
                                              Append(processed, step.row))

\* The loop of POST /api/load-reddit-data over the fetched problems, from
\* item i on: an item that throws is logged and skipped.
RECURSIVE ProcessFeed(_, _, _, _, _, _)
ProcessFeed(table, items, resps, dbs, i, processed) ==
  IF i > Len(items) THEN [table |-> table, processed |-> processed]
  ELSE LET step == ClassifyAndPersist(table, items[i], "Reddit",
                                      resps[i], dbs[i])
       IN  IF step.threw
             THEN ProcessFeed(table, items, resps, dbs, i + 1, processed)
             ELSE ProcessFeed(step.table, items, resps, dbs, i + 1,
                              Append(processed, step.row))

(***************************************************************************)
(* The match scorer.                                                       *)
(***************************************************************************)
CategoryWeight == 50
KeywordWeight == 15
DescriptionCategoryWeight == 20
DescriptionKeywordWeight == 10

\* Array.prototype.join(', ')
RECURSIVE join(_)
join(a) ==
  IF a = <<>> THEN ""
  ELSE IF Len(a) = 1 THEN a[1]
  ELSE a[1] \o ", " \o join(Tail(a))

\* problem.category as a condition: null and "" are both falsy.
Truthy(column) == column # Null /\ column[1] # ""

ListReason_OnePerKeyword(prefix, matched) ==
  [i \in 1..Len(matched) |-> prefix \o matched[i]]

\* if (matched.length > 0) reasons.push(`${prefix}${matched.join(', ')}`)
ListReason(prefix, matched) ==
  IF Len(matched) > 0 THEN <<prefix \o join(matched)>> ELSE <<>>

\* One iteration of the loop over the roster: the score and the reasons of
\* one entrepreneur for the problem, and in parts the four amounts the score
\* is the sum of.
ScoreEntrepreneur(problem, entrepreneur) ==
  LET expertise == entrepreneur.expertise
      categoryHit ==
        /\ Truthy(problem.category)
        /\ \E i \in 1..Len(expertise) : expertise[i] = problem.category[1]
      problemKeywords ==
        IF problem.keywords = Null THEN <<>> ELSE problem.keywords[1]
      matchingKeywords ==
        SelectSeq(problemKeywords, LAMBDA keyword :
          \E i \in 1..Len(expertise) :
            \/ includes(toLowerCase(expertise[i]), toLowerCase(keyword))
            \/ includes(toLowerCase(keyword), toLowerCase(expertise[i])))
      hasDescription == entrepreneur.description # ""
      descLower == toLowerCase(entrepreneur.description)
      categoryMatch ==
        /\ hasDescription
        /\ Truthy(problem.category)
        /\ includes(descLower, toLowerCase(problem.category[1]))
      keywordMatches ==
        IF hasDescription
          THEN SelectSeq(problemKeywords, LAMBDA keyword :
                 includes(descLower, toLowerCase(keyword)))
          ELSE <<>>
      parts ==
        <<IF categoryHit THEN CategoryWeight ELSE 0,
          Len(matchingKeywords) * KeywordWeight,
          IF categoryMatch THEN DescriptionCategoryWeight ELSE 0,
          Len(keywordMatches) * DescriptionKeywordWeight>>
  IN  [score |-> parts[1] + parts[2] + parts[3] + parts[4],
       parts |-> parts,
       reasons |->
         (IF categoryHit
            THEN <<"Expertise in " \o problem.category[1]>> ELSE <<>>)
         \o ListReason("Keywords: ", matchingKeywords)
         \o (IF categoryMatch
               THEN <<"Experience in " \o toLowerCase(problem.category[1])>>
               ELSE <<>>)
         \o ListReason("Background in ", keywordMatches)]

Included_ZeroToo(score) == score >= 0

\* score > 0
Included(score) == score > 0

\* The loop over the roster: the entrepreneurs with a positive score, in
\* roster order, each with its score and reasons.
RECURSIVE Matches(_, _)
Matches(problem, roster) ==
  IF roster = <<>> THEN <<>>
  ELSE LET rest == Matches(problem, SubSeq(roster, 1, Len(roster) - 1))
           e    == roster[Len(roster)]
           s    == ScoreEntrepreneur(problem, e)
       IN  IF Included(s.score)
             THEN Append(rest, [id |-> e.id, expertise |-> e.expertise,
                                description |-> e.description,
                                matchScore |-> s.score,
                                matchReasons |-> s.reasons])
             ELSE rest

StaysBefore_TiesReversed(x, m) == x.matchScore > m.matchScore

\* Whether x, already placed, stays before m when m is placed: the
\* comparator orders by descending matchScore and Array.prototype.sort is
\* stable, so an element goes after the elements that compare equal.
StaysBefore(x, m) == x.matchScore >= m.matchScore

\* matches.sort((a, b) => b.matchScore - a.matchScore)
RECURSIVE sortByMatchScore(_)
sortByMatchScore(matches) ==
  IF matches = <<>> THEN <<>>
  ELSE LET sorted == sortByMatchScore(SubSeq(matches, 1, Len(matches) - 1))
           m      == matches[Len(matches)]
           before == SelectSeq(sorted, LAMBDA x : StaysBefore(x, m))
           after  == SelectSeq(sorted, LAMBDA x : ~StaysBefore(x, m))
       IN  before \o <<m>> \o after

getMatchingEntrepreneurs_NoGuard(table, roster, problemId) ==
  LET found == SelectSeq(table, LAMBDA row : row.id = problemId)
  IN  IF found = <<>>
        THEN IF roster = <<>>
               THEN [threw |-> FALSE, value |-> <<>>, rosterRead |-> TRUE]
               ELSE [threw |-> TRUE, rosterRead |-> TRUE]
        ELSE [threw |-> FALSE,
              value |-> sortByMatchScore(Matches(found[1], roster)),
              rosterRead |-> TRUE]

\* getMatchingEntrepreneurs: rosterRead tells whether the roster was
\* selected from the entrepreneurs table.
getMatchingEntrepreneurs(table, roster, problemId) ==
  LET found == SelectSeq(table, LAMBDA row : row.id = problemId)
  IN  IF found = <<>>
        THEN [threw |-> FALSE, value |-> <<>>, rosterRead |-> FALSE]
        ELSE [threw |-> FALSE,
              value |-> sortByMatchScore(Matches(found[1], roster)),
              rosterRead |-> TRUE]

(***************************************************************************)
(* Operations.                                                             *)
(***************************************************************************)
Init ==
  /\ op = "idle"
  /\ arg = <<>>
  /\ svc = <<>>
  /\ ret = <<>>
  /\ calls = 0
  /\ problems = <<>>
  /\ entrepreneurs = <<>>
  /\ votes = <<>>

AnalyzeProblem ==
  /\ op = "idle"
  /\ \E text \in Texts, source \in Sources, resp \in AnalysisResponses :
       /\ op' = "analyzeProblem"
       /\ arg' = [text |-> text, source |-> source]
       /\ svc' = resp
       /\ ret' = analyzeProblem(text, source, resp)
       /\ calls' = analyzeProblem(text, source, resp).calls
  /\ UNCHANGED <<problems, entrepreneurs, votes>>

\* Request bodies of POST /api/problems.
SubmitBodies ==
  {[originalText |-> t, source |-> src] : t \in Texts, src \in Sources}
  \cup {[originalText |-> t, source |-> "User", category |-> "Traffic",
         score |-> 7] : t \in Texts}
  \cup {[originalText |-> t, source |-> "User",
         summary |-> "My own summary", keywords |-> <<"mine">>,
         category |-> "Traffic", processed |-> FALSE] : t \in Texts}
  \cup {[originalText |-> t] : t \in Texts}

\* The handler of POST /api/problems run on one request: resp is what the
\* service answers the classifier and dbOk whether the insert goes through.
SubmitRequest(body, resp, dbOk) ==
  /\ op' = "submitProblem"
  /\ arg' = body
  /\ IF ~submitProblemSchemaOk(body)
       THEN /\ svc' = <<>>
            /\ calls' = 0
            /\ ret' = [status |-> 400,
                       message |-> join(submitProblemSchemaIssues(body))]
            /\ problems' = problems
       ELSE LET step == ClassifyAndPersist(problems, body, body.source,
                                           resp, dbOk)
            IN  /\ svc' = resp
                /\ calls' = 1
                /\ problems' = step.table
                /\ ret' = IF step.threw
                            THEN [status |-> 400, message |-> step.message]
                          ELSE [status |-> 200, problem |-> step.row]

\* POST /api/problems
SubmitProblem ==
  /\ op = "idle"
  /\ \E body \in SubmitBodies, resp \in AnalysisResponses, dbOk \in BOOLEAN :
       SubmitRequest(body, resp, dbOk)
  /\ UNCHANGED <<entrepreneurs, votes>>

\* A post of the feed with the given selftext.
Post(selftext) ==
  [title |-> "Title", selftext |-> selftext, score |-> 12,
   subreddit |-> "LifeProTips", author |-> "ann", author_link_karma |-> 3]

\* A post the filter of fetchRedditData accepts and one it rejects.
AcceptedPost == Post(TextOfLen(MinSelftextLength + 1))
RejectedPost == Post(TextOfLen(MinSelftextLength))

\* What fetching one subreddit gives: the fetch throws, answers with a
\* status that is not ok, or answers posts.
Channels ==
  {[kind |-> "throw"], [kind |-> "notok"]}
  \cup {[kind |-> "ok", posts |-> ps] :
          ps \in {<<>>, <<AcceptedPost>>, <<RejectedPost>>,
                  <<RejectedPost, AcceptedPost>>}}

Feeds == SeqsUpTo(Channels, MaxChannels)

\* What classifying and persisting one feed item can meet: the classifier's
\* call throws, answers null, an object with the three keys or an object
\* without keywords, or the insert raises.
LoadOutcomes ==
  {[resp |-> [kind |-> "throw"], dbOk |-> TRUE],
   [resp |-> [kind |-> "json", value |-> JsNull], dbOk |-> TRUE],
   [resp |-> [kind |-> "json",
              value |-> [summary |-> "A short summary.",
                         keywords |-> KeywordList(1),
                         category |-> "Healthcare"]], dbOk |-> TRUE],
   [resp |-> [kind |-> "json",
              value |-> [summary |-> "A short summary.",
                         category |-> "Healthcare"]], dbOk |-> TRUE],
   [resp |-> [kind |-> "json",
              value |-> [summary |-> "A short summary.",
                         keywords |-> KeywordList(1),
                         category |-> "Healthcare"]], dbOk |-> FALSE]}

\* The handler of POST /api/load-reddit-data run on one request: feed is
\* what fetching the subreddits gives.
LoadRequest(feed) ==
  LET redditProblems == fetchRedditData(feed)
      n == Len(redditProblems)
  IN  \E outcomes \in [1..n -> LoadOutcomes] :
        LET resps == [i \in 1..n |-> outcomes[i].resp]
            dbs   == [i \in 1..n |-> outcomes[i].dbOk]
            done  == ProcessFeed(problems, redditProblems, resps, dbs,
                                 1, <<>>)
        IN  /\ op' = "loadRedditData"
            /\ arg' = feed
            /\ svc' = outcomes
            /\ calls' = n
            /\ problems' = done.table
            /\ ret' = [status |-> 200, problems |-> done.processed]

\* POST /api/load-reddit-data
LoadRedditData ==
  /\ op = "idle"
  /\ \E feed \in Feeds : LoadRequest(feed)
  /\ UNCHANGED <<entrepreneurs, votes>>

Next == AnalyzeProblem \/ SubmitProblem \/ LoadRedditData

Spec == Init /\ [][Next]_vars

(***************************************************************************)
(* The cluster engine, run on a batch of stored problems.                  *)
(***************************************************************************)
\* The keyword lists of the problems handed to clusterProblems.
BatchKeywords ==
  {<<>>, <<"road">>, <<"health", "road", "school", "water">>, <<"">>}

\* Batches of problems with distinct ids, as getProblemsForClustering
\* returns them.
Batches ==
  UNION {{[i \in 1..n |-> [id |-> IdPool[i], summary |-> "A short summary.",
                           keywords |-> kw[i]]] :
            kw \in [1..n -> BatchKeywords]} : n \in 0..MaxBatch}

\* The problemIds a returned cluster may carry: none, one id of the batch
\* or an id that is not in the batch, the first id twice, or the first two
\* ids.
IdLists(batch) ==
  {<<>>, <<"ghost">>} \cup {<<batch[i].id>> : i \in 1..Len(batch)}
  \cup (IF Len(batch) >= 2
          THEN {<<batch[1].id, batch[1].id>>, <<batch[1].id, batch[2].id>>}
          ELSE {})

\* The elements of a returned array: clusters with the four keys, one of
\* them with a number that is not within the range the response schema
\* asks for, a cluster with problemIds alone, and a cluster without
\* problemIds.
ResponseClusters(batch) ==
  {[clusterName |-> "Urban Mobility", problemIds |-> l,
    commonThemes |-> <<"transport">>, innovationGaps |-> 8] :
      l \in IdLists(batch)}
  \cup {[clusterName |-> "Public Health", problemIds |-> <<"p1">>,
         commonThemes |-> <<"clinics">>, innovationGaps |-> 11]}
  \cup {[problemIds |-> <<"p1">>], [clusterName |-> "Urban Mobility"]}

\* What the call of ai.models.generateContent for clusterProblems can give:
\* the call rejects, response.text is empty, is not JSON, parses to a value
\* that is no array, or parses to an array of at most n elements.
ClusterResponses(batch, n) ==
  {[kind |-> "throw"], [kind |-> "empty"], [kind |-> "notjson"],
   [kind |-> "json", isArray |-> FALSE]}
  \cup {[kind |-> "json", isArray |-> TRUE, value |-> cs] :
          cs \in SeqsUpTo(ResponseClusters(batch), n)}

\* clusterProblems, as GET /api/clusters calls it.  svc is what the service
\* would answer if it were called.
ClusterProblems ==
  /\ op = "idle"
  /\ \E batch \in Batches :
       \E resp \in ClusterResponses(batch,
                     IF Len(batch) < SmallBatch THEN 1
                     ELSE MaxResponseClusters) :
         LET out == clusterProblems(batch, resp)
         IN  /\ op' = "clusterProblems"
             /\ arg' = batch
             /\ svc' = resp
             /\ ret' = IF out.threw THEN [threw |-> TRUE]
                       ELSE [threw |-> FALSE, value |-> out.value]
             /\ calls' = out.calls
  /\ UNCHANGED <<problems, entrepreneurs, votes>>

InitCluster == Init

NextCluster == ClusterProblems

SpecCluster == InitCluster /\ [][NextCluster]_vars

(***************************************************************************)
(* The match scorer, run on a stored problem and a stored roster.          *)
(***************************************************************************)
\* The analyses whose category and keywords the stored problem carries.
MatchAnalyses ==
  {[summary |-> "A short summary.", keywords |-> k, category |-> c] :
     k \in {<<>>, <<"road", "tax">>, <<"Health">>},
     c \in {"Healthcare", "Other", ""}}
  \cup {[summary |-> "A short summary.", category |-> c] :
          c \in {"Healthcare", ""}}
  \cup {[summary |-> "A short summary.", keywords |-> k] :
          k \in {<<>>, <<"road", "tax">>}}

\* The tables POST /api/problems leaves after one accepted submission.
MatchTables ==
  {ClassifyAndPersist(<<>>, [originalText |-> TextOfLen(MinTextLength),
                             source |-> "User"], "User",
                      [kind |-> "json", value |-> a], TRUE).table :
     a \in MatchAnalyses}

Experts ==
  {[expertise |-> <<"Healthcare">>, description |-> "Solo founder."],
   [expertise |-> <<"Roads", "Taxes">>, description |-> "Solo founder."],
   [expertise |-> <<"Finance">>, description |-> "Solo founder."],
   [expertise |-> <<"Finance">>,
    description |-> "Ten years in HEALTHCARE and road safety."],
   [expertise |-> <<"Healthcare", "Roads">>,
    description |-> "Built road and healthcare tools."],
   [expertise |-> <<"">>, description |-> ""]}

EntrepreneurIds == <<"e1", "e2", "e3", "e4", "e5">>

Rosters ==
  UNION {{[i \in 1..n |-> [id |-> EntrepreneurIds[i],
                           expertise |-> es[i].expertise,
                           description |-> es[i].description]] :
            es \in [1..n -> Experts]} : n \in 0..MaxRoster}

InitMatch ==
  /\ op = "idle"
  /\ arg = <<>>
  /\ svc = <<>>
  /\ ret = <<>>
  /\ calls = 0
  /\ problems \in MatchTables
  /\ entrepreneurs \in Rosters
  /\ votes = <<>>

GetMatchingEntrepreneurs ==
  /\ op = "idle"
  /\ \E problemId \in {"p1", "p2"} :
       LET out == getMatchingEntrepreneurs(problems, entrepreneurs, problemId)
       IN  /\ op' = "getMatchingEntrepreneurs"
           /\ arg' = problemId
           /\ ret' = out
           /\ calls' = 0
  /\ UNCHANGED <<svc, problems, entrepreneurs, votes>>

NextMatch == GetMatchingEntrepreneurs

SpecMatch == InitMatch /\ [][NextMatch]_vars

(***************************************************************************)
(* Properties of the cluster engine.                                       *)
(***************************************************************************)
\* How many times id occurs in the problemIds of the clusters.
RECURSIVE Occurrences(_, _)
Occurrences(id, clusters) ==
  IF clusters = <<>> THEN 0
  ELSE Cardinality({i \in 1..Len(Head(clusters).problemIds) :
                      Head(clusters).problemIds[i] = id})
       + Occurrences(id, Tail(clusters))

InputIds == {arg[i].id : i \in 1..Len(arg)}

ReturnedIds ==
  UNION {{ret.value[c].problemIds[i] : i \in 1..Len(ret.value[c].problemIds)} :
           c \in 1..Len(ret.value)}

\* C1: the clusters clusterProblems returns partition the input ids: every
\* input id occurs exactly once in exactly one cluster and no other id
\* occurs, whatever the service answered.
C1_Partition ==
  op = "clusterProblems" =>
    /\ ~ret.threw
    /\ \A id \in InputIds : Occurrences(id, ret.value) = 1
    /\ ReturnedIds \subseteq InputIds

\* C2: for 0, 1 or 2 problems clusterProblems does not call the service and
\* returns one cluster per problem, holding that problem's id alone.
C2_SmallInputSingletons ==
  (op = "clusterProblems" /\ Len(arg) <= 2) =>
    /\ calls = 0
    /\ ~ret.threw
    /\ Len(ret.value) = Len(arg)
    /\ \A i \in 1..Len(arg) : ret.value[i].problemIds = <<arg[i].id>>

C2_Witness ==
  /\ op = "clusterProblems"
  /\ Len(arg) = 2
  /\ svc.kind = "json"
  /\ calls = 0
  /\ Len(ret.value) = 2

\* The service call of clusterProblems failed: it threw, gave empty text,
\* text that is not JSON, or JSON that is not an array of clusters with the
\* four required keys.
WellFormedCluster(c) ==
  DOMAIN c = {"clusterName", "problemIds", "commonThemes", "innovationGaps"}

ClusterCallFailed ==
  \/ svc.kind \in {"throw", "empty", "notjson"}
  \/ /\ svc.kind = "json"
     /\ \/ ~svc.isArray
        \/ \E i \in 1..Len(svc.value) : ~WellFormedCluster(svc.value[i])

\* The bucket the fallback clustering puts a problem in.
Bucket(problem) ==
  IF Len(problem.keywords) = 0 \/ problem.keywords[1] = "" THEN "other"
  ELSE problem.keywords[1]

\* C6: for 3 or more problems and a failed service call, clusterProblems
\* does not throw and returns the fallback clustering: one cluster per
\* distinct first keyword ("other" without one), holding the problems of
\* that keyword, with themes [keyword, "user-reported", "community-driven"]
\* and innovation gap 6.
C6_FallbackOnFailure ==
  (op = "clusterProblems" /\ Len(arg) >= 3 /\ ClusterCallFailed) =>
    /\ ~ret.threw
    /\ Len(ret.value) = Cardinality({Bucket(arg[i]) : i \in 1..Len(arg)})
    /\ \A c \in 1..Len(ret.value) :
         /\ DOMAIN ret.value[c] = {"clusterName", "problemIds",
                                   "commonThemes", "innovationGaps"}
         /\ ret.value[c].innovationGaps = 6
         /\ Len(ret.value[c].commonThemes) = 3
         /\ SubSeq(ret.value[c].commonThemes, 2, 3)
              = <<"user-reported", "community-driven">>
         /\ {ret.value[c].problemIds[i] :
               i \in 1..Len(ret.value[c].problemIds)}
              = {arg[i].id : i \in {j \in 1..Len(arg) :
                   Bucket(arg[j]) = ret.value[c].commonThemes[1]}}

(***************************************************************************)
(* Properties of the text classifier and of the persisted problems.        *)
(***************************************************************************)
AnalysisCallFailed == svc.kind \in {"throw", "empty", "notjson"}

\* C3: when the call of analyzeProblem throws, gives empty text or text that
\* is not JSON, analyzeProblem does not throw and returns the text itself
\* (at most 200 characters) or its first 200 characters and "..." as the
\* summary, no keywords and the category "Other".
C3_ClassifierFallback ==
  (op = "analyzeProblem" /\ AnalysisCallFailed) =>
    /\ ~ret.threw
    /\ ret.value.keywords = <<>>
    /\ ret.value.category = "Other"
    /\ Len(arg.text) <= 200 => ret.value.summary = arg.text
    /\ Len(arg.text) > 200 =>
         /\ Len(ret.value.summary) = 203
         /\ SubSeq(ret.value.summary, 1, 200) = SubSeq(arg.text, 1, 200)
         /\ SubSeq(ret.value.summary, 201, 203) = "..."

C3_Witness ==
  /\ op = "analyzeProblem"
  /\ svc.kind = "notjson"
  /\ Len(arg.text) = 201
  /\ ~ret.threw
  /\ Len(ret.value.summary) = 203

\* C4: every problem the submission route or the feed-load route persists
\* has summary, keywords and category all populated, whatever the
\* classifier's call answered.
C4_PersistedEnriched ==
  \A i \in 1..Len(problems) :
    /\ problems[i].summary # Null
    /\ problems[i].keywords # Null
    /\ problems[i].category # Null

\* C5: the value analyzeProblem returns has at most 5 keywords and a
\* category of the fixed category set, whatever the service answered.
C5_AnalysisInContract ==
  op = "analyzeProblem" =>
    /\ ~ret.threw
    /\ "keywords" \in DOMAIN ret.value
    /\ Len(ret.value.keywords) <= 5
    /\ "category" \in DOMAIN ret.value
    /\ ret.value.category \in {"Traffic", "Environment", "Education",
                               "Healthcare", "Governance", "Technology",
                               "Other"}

(***************************************************************************)
(* Properties of the match scorer.                                         *)
(***************************************************************************)
\* The stored problem getMatchingEntrepreneurs was called for, if any.
Known == \E i \in 1..Len(problems) : problems[i].id = arg
TheProblem == problems[CHOOSE i \in 1..Len(problems) : problems[i].id = arg]

ScoreOf(i) == ScoreEntrepreneur(TheProblem, entrepreneurs[i]).score
RosterIndex(id) == CHOOSE i \in 1..Len(entrepreneurs) : entrepreneurs[i].id = id
ResultIds == [i \in 1..Len(ret.value) |-> ret.value[i].id]

\* C7: the result of getMatchingEntrepreneurs holds exactly the experts with
\* a positive score, each once and with that score, in non-increasing order
\* of score; experts scoring 50, 0 and 30 give the 50-scorer, then the
\* 30-scorer.
C7_PositiveScoresSorted ==
  (op = "getMatchingEntrepreneurs" /\ Known) =>
    /\ \A i \in 1..Len(entrepreneurs) :
         Cardinality({j \in 1..Len(ret.value) :
                        ret.value[j].id = entrepreneurs[i].id})
           = IF ScoreOf(i) > 0 THEN 1 ELSE 0
    /\ \A j \in 1..Len(ret.value) :
         /\ \E i \in 1..Len(entrepreneurs) :
              ret.value[j].id = entrepreneurs[i].id
         /\ ret.value[j].matchScore = ScoreOf(RosterIndex(ret.value[j].id))
         /\ ret.value[j].matchScore > 0
    /\ \A j \in 1..(Len(ret.value) - 1) :
         ret.value[j].matchScore >= ret.value[j + 1].matchScore
    /\ (Len(entrepreneurs) = 3 /\ ScoreOf(1) = 50 /\ ScoreOf(2) = 0
          /\ ScoreOf(3) = 30) => ResultIds = <<"e1", "e3">>

C7_Witness ==
  /\ op = "getMatchingEntrepreneurs"
  /\ Known
  /\ Len(entrepreneurs) = 3
  /\ ScoreOf(1) = 50 /\ ScoreOf(2) = 0 /\ ScoreOf(3) = 30
  /\ ResultIds = <<"e1", "e3">>

\* C8: two experts of the result with the same matchScore are in the order
\* they have in the roster.
C8_StableTies ==
  (op = "getMatchingEntrepreneurs" /\ Known) =>
    \A i \in 1..Len(ret.value), j \in 1..Len(ret.value) :
      (i < j /\ ret.value[i].matchScore = ret.value[j].matchScore) =>
        RosterIndex(ret.value[i].id) < RosterIndex(ret.value[j].id)

C8_Witness ==
  /\ op = "getMatchingEntrepreneurs"
  /\ Known
  /\ Len(ret.value) = 3
  /\ ret.value[1].matchScore > ret.value[2].matchScore
  /\ ret.value[2].matchScore = ret.value[3].matchScore
  /\ ResultIds = <<"e2", "e1", "e3">>

HasTag(i, tag) ==
  \E t \in 1..Len(entrepreneurs[i].expertise) :
    entrepreneurs[i].expertise[t] = tag

\* C9: for a problem with a non-null category and an empty keyword list,
\* every expert whose expertise tags contain the category is in the result
\* and scores strictly more than every expert whose tags do not contain it.
C9_CategoryDominates ==
  (/\ op = "getMatchingEntrepreneurs"
   /\ Known
   /\ TheProblem.category # Null
   /\ TheProblem.keywords = Some(<<>>)) =>
    \A i \in 1..Len(entrepreneurs) :
      HasTag(i, TheProblem.category[1]) =>
        /\ \E j \in 1..Len(ret.value) : ret.value[j].id = entrepreneurs[i].id
        /\ \A k \in 1..Len(entrepreneurs) :
             ~HasTag(k, TheProblem.category[1]) => ScoreOf(i) > ScoreOf(k)

\* C10: for a problem id that no stored problem has,
\* getMatchingEntrepreneurs returns the empty list, raises nothing and does
\* not read the roster.
C10_UnknownProblem ==
  (op = "getMatchingEntrepreneurs" /\ ~Known) =>
    /\ ~ret.threw
    /\ ret.value = <<>>
    /\ ~ret.rosterRead

C10_Witness ==
  /\ op = "getMatchingEntrepreneurs"
  /\ ~Known
  /\ Len(entrepreneurs) = 3
  /\ ScoreEntrepreneur(problems[1], entrepreneurs[1]).score > 0
  /\ ret.value = <<>>

(***************************************************************************)
(* The similarity detector, checkSimilarity(candidateText, priorProblems). *)
(* It is written from its contract: an empty prior set answers "not        *)
(* duplicate" without a call, a failing service answers "not duplicate"    *)
(* with an empty rationale, and otherwise the service's verdict is         *)
(* authoritative.                                                          *)
(***************************************************************************)
MaxPriors == 2

\* The fallback verdict.
NotDuplicate == [isDuplicate |-> FALSE, rationale |-> ""]

\* The prior problems handed to the check: n stored problems.
RECURSIVE PriorProblems(_)
PriorProblems(n) ==
  IF n = 0 THEN <<>>
  ELSE ClassifyAndPersist(PriorProblems(n - 1),
                          [originalText |-> TextOfLen(MinTextLength),
                           source |-> "User"], "User",
                          [kind |-> "json",
                           value |-> [summary |-> "A short summary.",
                                      keywords |-> KeywordList(1),
                                      category |-> "Healthcare"]],
                          TRUE).table

\* What the external service can give for a similarity judgment: the call
\* rejects, the answer is empty or is not JSON, or it is a verdict, which
\* names one of the prior problems as the nearest match when it says
\* duplicate.
SimilarityResponses(priorProblems) ==
  {[kind |-> "throw"], [kind |-> "empty"], [kind |-> "notjson"],
   [kind |-> "json",
    value |-> [isDuplicate |-> FALSE, rationale |-> "Different topics."]]}
  \cup {[kind |-> "json",
         value |-> [isDuplicate |-> TRUE,
                    matchId |-> priorProblems[i].id,
                    closeness |-> c,
                    rationale |-> "The same complaint."]] :
          i \in 1..Len(priorProblems), c \in {80, 95}}

checkSimilarity_CallsOnEmpty(candidateText, priorProblems, resp) ==
  IF resp.kind # "json"
    THEN [threw |-> FALSE, value |-> NotDuplicate, calls |-> 1]
    ELSE [threw |-> FALSE, value |-> resp.value, calls |-> 1]

checkSimilarity_FailsClosed(candidateText, priorProblems, resp) ==
  IF priorProblems = <<>>
    THEN [threw |-> FALSE, value |-> NotDuplicate, calls |-> 0]
  ELSE IF resp.kind # "json"
    THEN [threw |-> TRUE, calls |-> 1]
  ELSE [threw |-> FALSE, value |-> resp.value, calls |-> 1]

\* calls counts the calls of the external service.
checkSimilarity(candidateText, priorProblems, resp) ==
  IF priorProblems = <<>>
    THEN [threw |-> FALSE, value |-> NotDuplicate, calls |-> 0]
  ELSE IF resp.kind # "json"
    THEN [threw |-> FALSE, value |-> NotDuplicate, calls |-> 1]
  ELSE [threw |-> FALSE, value |-> resp.value, calls |-> 1]

\* svc is what the service would answer if it were called.
CheckSimilarity ==
  /\ op = "idle"
  /\ \E text \in Texts, n \in 0..MaxPriors :
       LET priorProblems == PriorProblems(n)
       IN  \E resp \in SimilarityResponses(priorProblems) :
             LET out == checkSimilarity(text, priorProblems, resp)
             IN  /\ op' = "checkSimilarity"
                 /\ arg' = [text |-> text, priorProblems |-> priorProblems]
                 /\ svc' = resp
                 /\ ret' = IF out.threw THEN [threw |-> TRUE]
                           ELSE [threw |-> FALSE, value |-> out.value]
                 /\ calls' = out.calls
  /\ UNCHANGED <<problems, entrepreneurs, votes>>

InitSimilarity == Init

NextSimilarity == CheckSimilarity

SpecSimilarity == InitSimilarity /\ [][NextSimilarity]_vars

\* C11: a similarity check against an empty set of prior problems answers
\* "not duplicate" and makes no call of the external service.
C11_EmptyPriorSet ==
  (op = "checkSimilarity" /\ arg.priorProblems = <<>>)
    => /\ ~ret.threw
       /\ ~ret.value.isDuplicate
       /\ calls = 0

C11_Witness ==
  /\ op = "checkSimilarity"
  /\ arg.priorProblems = <<>>
  /\ svc.kind = "json"
  /\ ~ret.threw
  /\ calls = 0

SimilarityCallFailed == svc.kind \in {"throw", "empty", "notjson"}

\* C12: when the external service fails during a similarity check, the
\* check raises no error and answers "not duplicate" with an empty
\* rationale.
C12_FailOpen ==
  (op = "checkSimilarity" /\ calls = 1 /\ SimilarityCallFailed)
    => /\ ~ret.threw
       /\ ~ret.value.isDuplicate
       /\ ret.value.rationale = ""

C12_Witness ==
  /\ op = "checkSimilarity"
  /\ Len(arg.priorProblems) = MaxPriors
  /\ svc.kind = "throw"
  /\ calls = 1
  /\ ~ret.threw
  /\ ret.value = NotDuplicate

(***************************************************************************)
(* Properties of the two routes that create problems.                      *)
(***************************************************************************)
\* The problems fetchRedditData gave to the loop of the last feed load.
FeedItems == fetchRedditData(arg)

\* Classifying and persisting the i-th feed item succeeded: the classifier
\* gave an analysis whose properties can be read, and the insert did not
\* raise.
ItemSucceeded(i) ==
  /\ svc[i].dbOk
  /\ ~(svc[i].resp.kind = "json" /\ svc[i].resp.value = JsNull)

\* How many of the first i feed items succeeded.
Rank(i) == Cardinality({j \in 1..i : ItemSucceeded(j)})

\* The keywords column the i-th item is stored with: those of the answer,
\* null when the answer has none, and the fallback's when the call failed.
ItemKeywords(i) ==
  IF svc[i].resp.kind # "json" THEN Some(<<>>)
  ELSE Column(svc[i].resp.value, "keywords")

\* C13: in a feed load, an item that fails to be classified or persisted
\* does not abort the batch: the classifier is called for every item, the
\* request answers 200, and the returned problems are exactly the items
\* whose persistence succeeded, in feed order.
C13_BestEffortBatch ==
  (op = "loadRedditData")
    => /\ ret.status = 200
       /\ calls = Len(FeedItems)
       /\ Len(ret.problems) = Rank(Len(FeedItems))
       /\ problems = ret.problems
       /\ \A i \in 1..Len(FeedItems) :
            ItemSucceeded(i)
              => /\ ret.problems[Rank(i)].originalText
                      = FeedItems[i].originalText
                 /\ ret.problems[Rank(i)].keywords = ItemKeywords(i)
                 /\ ret.problems[Rank(i)].processed

C13_Witness ==
  /\ op = "loadRedditData"
  /\ Len(FeedItems) = 2
  /\ ~ItemSucceeded(1)
  /\ ItemSucceeded(2)
  /\ ret.status = 200
  /\ Len(ret.problems) = 1
  /\ ret.problems[1].keywords = ItemKeywords(2)

\* C14: a direct submission whose text is shorter than 50 characters is
\* answered 400 with a message giving the reason, without a call of the
\* classifier and without a problem being stored.
C14_ShortTextRejected ==
  (/\ op = "submitProblem"
   /\ "originalText" \in DOMAIN arg
   /\ Len(arg.originalText) < 50)
    => /\ ret.status = 400
       /\ includes(ret.message, "at least 50 characters")
       /\ calls = 0
       /\ problems = <<>>

C14_Witness ==
  /\ op = "submitProblem"
  /\ DOMAIN arg = {"originalText", "source"}
  /\ Len(arg.originalText) = 49
  /\ ret.status = 400
  /\ calls = 0
  /\ problems = <<>>

(***************************************************************************)
(* POST /api/problems step by step: op is the position of the handler,     *)
(* which suspends at its two awaits.                                       *)
(***************************************************************************)
\* const data = submitProblemSchema.parse(req.body), and the catch block
\* when it throws.
SubmitParse ==
  /\ op = "idle"
  /\ \E body \in SubmitBodies :
       /\ arg' = body
       /\ IF submitProblemSchemaOk(body)
            THEN /\ op' = "parsed"
                 /\ ret' = ret
            ELSE /\ op' = "responded"
                 /\ ret' = [status |-> 400,
                            message |-> join(submitProblemSchemaIssues(body))]
  /\ UNCHANGED <<svc, calls, problems, entrepreneurs, votes>>

\* await analyzeProblem(data.originalText, data.source || 'User'): svc is
\* what the service answers.
SubmitAnalyze ==
  /\ op = "parsed"
  /\ \E resp \in AnalysisResponses :
       /\ op' = "analyzed"
       /\ svc' = resp
       /\ calls' = calls + 1
  /\ UNCHANGED <<arg, ret, problems, entrepreneurs, votes>>

\* await storage.createProblem({...}) and res.json(problem), or the catch
\* block when a property of the analysis cannot be read or the insert
\* raises.
SubmitPersist ==
  /\ op = "analyzed"
  /\ \E dbOk \in BOOLEAN :
       LET step == ClassifyAndPersist(problems, arg, arg.source, svc, dbOk)
       IN  /\ op' = "responded"
           /\ problems' = step.table
           /\ ret' = IF step.threw
                       THEN [status |-> 400, message |-> step.message]
                     ELSE [status |-> 200, problem |-> step.row]
  /\ UNCHANGED <<arg, svc, calls, entrepreneurs, votes>>

InitSubmit == Init

NextSubmit == SubmitParse \/ SubmitAnalyze \/ SubmitPersist

SpecSubmit == InitSubmit /\ [][NextSubmit]_vars

\* The position of a handler that has made the similarity check of its
\* submission and has not yet called the classifier.
SimilarityChecked == op = "similarityChecked"

\* C15: for a direct submission the steps happen in the order similarity
\* check, classifier, persistence: the classifier is called only by a
\* handler that has made the similarity check, and a problem is stored only
\* by a handler for which the classifier has returned.
C15_StepOrder ==
  /\ [][calls' # calls => SimilarityChecked]_vars
  /\ [][problems' # problems => (op = "analyzed" /\ calls = 1)]_vars

(***************************************************************************)
(* Votes, and the stored problems over a sequence of requests.             *)
(***************************************************************************)
MaxStored == 2
MaxVotes == 2

VoteIdPool == <<"v1", "v2", "v3", "v4">>

\* storage.createVote: votes.problemId references problems.id, so a vote
\* for a problem that is not stored makes the insert raise.
createVote(table, voteTable, vote) ==
  IF \A i \in 1..Len(table) : table[i].id # vote.problemId
    THEN [threw |-> TRUE, votes |-> voteTable]
    ELSE LET row == [id             |-> VoteIdPool[Len(voteTable) + 1],
                     problemId      |-> vote.problemId,
                     userIdentifier |-> vote.userIdentifier]
         IN  [threw |-> FALSE, votes |-> Append(voteTable, row), row |-> row]

\* The first statement of storage.updateProblemScore: select count(*) from
\* votes where problem_id = problemId.
countVotes(voteTable, problemId) ==
  Cardinality({i \in 1..Len(voteTable) : voteTable[i].problemId = problemId})

\* The second statement of storage.updateProblemScore: update problems set
\* score = newScore where id = problemId, returning the rows.
setScore(table, problemId, newScore) ==
  LET updated == [i \in 1..Len(table) |->
                    IF table[i].id = problemId
                      THEN [table[i] EXCEPT !.score = newScore]
                      ELSE table[i]]
  IN  [table |-> updated,
       rows  |-> SelectSeq(updated, LAMBDA r : r.id = problemId)]

updateProblemScore_Increments(table, voteTable, problemId) ==
  LET old == {table[i].score : i \in {j \in 1..Len(table) :
                                         table[j].id = problemId}}
  IN  setScore(table, problemId,
               IF old = {} THEN 0 ELSE (CHOOSE n \in old : TRUE) + 1)

\* storage.updateProblemScore with nothing in between its two statements:
\* the score of the problem becomes the number of its votes.
updateProblemScore(table, voteTable, problemId) ==
  setScore(table, problemId, countVotes(voteTable, problemId))

\* The handler of POST /api/problems/:id/vote run on one request, with no
\* other request in between its two statements.
VoteRequest(id, body) ==
  LET userIdentifier ==
        IF "userIdentifier" \in DOMAIN body /\ body.userIdentifier # ""
          THEN body.userIdentifier ELSE "anonymous"
      created == createVote(problems, votes,
                            [problemId |-> id,
                             userIdentifier |-> userIdentifier])
  IN  /\ op' = "vote"
      /\ arg' = [id |-> id, body |-> body]
      /\ svc' = <<>>
      /\ calls' = 0
      /\ IF created.threw
           THEN /\ votes' = votes
                /\ problems' = problems
                /\ ret' = [status |-> 400,
                           message |-> "Failed to create vote"]
           ELSE LET updated == updateProblemScore(problems, created.votes, id)
                IN  /\ votes' = created.votes
                    /\ problems' = updated.table
                    /\ ret' = [status |-> 200, vote |-> created.row,
                               problem |-> updated.rows]

\* Bodies of accepted submissions: the one the submission form sends, and
\* one that carries a score, which insertProblemSchema lets through.
StoreBodies ==
  {[originalText |-> TextOfLen(MinTextLength), source |-> "User"],
   [originalText |-> TextOfLen(MinTextLength), source |-> "User",
    category |-> "Traffic", score |-> 7]}

StoreAnalysis ==
  [kind |-> "json",
   value |-> [summary |-> "A short summary.", keywords |-> KeywordList(1),
              category |-> "Healthcare"]]

StoreSubmit ==
  /\ Len(problems) < MaxStored
  /\ \E body \in StoreBodies : SubmitRequest(body, StoreAnalysis, TRUE)
  /\ UNCHANGED <<entrepreneurs, votes>>

StoreLoad ==
  /\ Len(problems) < MaxStored
  /\ LoadRequest(<<[kind |-> "ok", posts |-> <<AcceptedPost>>]>>)
  /\ UNCHANGED <<entrepreneurs, votes>>

\* A vote for a stored problem or for an id that is not stored, with and
\* without a userIdentifier in the body.
StoreVote ==
  /\ Len(votes) < MaxVotes
  /\ \E id \in {problems[i].id : i \in 1..Len(problems)} \cup {"ghost"},
        body \in {[userIdentifier |-> "ann"], <<>>} :
       VoteRequest(id, body)
  /\ UNCHANGED entrepreneurs

InitStore == Init

NextStore == StoreSubmit \/ StoreLoad \/ StoreVote

SpecStore == InitStore /\ [][NextStore]_vars

\* The score of a stored problem changes only in a vote request.
ScoreChangedOnlyByVote ==
  \A i \in 1..Len(problems) :
    /\ i <= Len(problems')
    /\ problems'[i].score # problems[i].score => op' = "vote"

\* The row has the text and the score of a post of the feed.
FromFeedPost(row, feed) ==
  \E c \in 1..Len(feed) :
    /\ feed[c].kind = "ok"
    /\ \E p \in 1..Len(feed[c].posts) :
         /\ row.originalText
              = feed[c].posts[p].title \o "\n\n" \o feed[c].posts[p].selftext
         /\ row.score = feed[c].posts[p].score

\* C16 as stated: every problem, from a direct submission or from the
\* feed, has score 0 when it is created, and its score changes only in a
\* vote request.
C16_ScoreZeroAtCreation ==
  [][/\ \A i \in (Len(problems) + 1)..Len(problems') :
          problems'[i].score = 0
     /\ ScoreChangedOnlyByVote]_vars

\* C16 amended: a problem created by a direct submission has the score its
\* request body gives and 0 when the body gives none, a problem created by
\* the feed load has the score of its feed post, and the score of a stored
\* problem changes only in a vote request.
C16_ScoreAsGiven ==
  [][/\ \A i \in (Len(problems) + 1)..Len(problems') :
          \/ /\ op' = "submitProblem"
             /\ problems'[i].score
                  = (IF "score" \in DOMAIN arg' THEN arg'.score ELSE 0)
          \/ /\ op' = "loadRedditData"
             /\ FromFeedPost(problems'[i], arg')
     /\ ScoreChangedOnlyByVote]_vars

C16_Witness ==
  /\ op = "vote"
  /\ ret.status = 200
  /\ Len(problems) = 2
  /\ problems[1].source = "User"
  /\ problems[1].score = 1
  /\ problems[2].source = "Reddit"
  /\ problems[2].score = AcceptedPost.score

(***************************************************************************)
(* More properties of the cluster engine and of the classifier.            *)
(***************************************************************************)
GapRange == 1..10

\* C17: every innovation-gap score a cluster returned by clusterProblems
\* carries is within 1..10, on the small-input path, the fallback path and
\* the service path, whatever numbers the service returned.
C17_GapInRange ==
  (op = "clusterProblems" /\ ~ret.threw)
    => \A c \in 1..Len(ret.value) :
         "innovationGaps" \in DOMAIN ret.value[c]
           => ret.value[c].innovationGaps \in GapRange

(***************************************************************************)
(* The classifier called several times in a row, as the routes of one      *)
(* server do: arg.before keeps the text, the origin and the outcome of the *)
(* call before.                                                            *)
(***************************************************************************)
MaxCalls == 2

\* What the service answers a repeated call: the three failures and one
\* analysis.
RerunResponses ==
  {[kind |-> "throw"], [kind |-> "empty"], [kind |-> "notjson"],
   StoreAnalysis}

AnalyzeAgain ==
  /\ op = "analyzeProblem"
  /\ calls < MaxCalls
  /\ \E text \in Texts, source \in Sources, resp \in RerunResponses :
       /\ op' = "analyzeProblem"
       /\ arg' = [text |-> text, source |-> source,
                  before |-> [text |-> arg.text, source |-> arg.source,
                              svc |-> svc, ret |-> ret]]
       /\ svc' = resp
       /\ ret' = analyzeProblem(text, source, resp)
       /\ calls' = calls + 1
  /\ UNCHANGED <<problems, entrepreneurs, votes>>

AnalyzeFirst ==
  /\ op = "idle"
  /\ \E text \in Texts, source \in Sources, resp \in RerunResponses :
       /\ op' = "analyzeProblem"
       /\ arg' = [text |-> text, source |-> source]
       /\ svc' = resp
       /\ ret' = analyzeProblem(text, source, resp)
       /\ calls' = 1
  /\ UNCHANGED <<problems, entrepreneurs, votes>>

InitRerun == Init

NextRerun == AnalyzeFirst \/ AnalyzeAgain

SpecRerun == InitRerun /\ [][NextRerun]_vars

\* The call before failed too, on the same text.
FailedBeforeOnSameText ==
  /\ "before" \in DOMAIN arg
  /\ arg.before.svc.kind \in {"throw", "empty", "notjson"}
  /\ arg.before.text = arg.text

\* C18: two failed calls of the classifier on the same text give the same
\* result, whatever the origin given to each and however each call failed.
C18_FallbackRepeatable ==
  (op = "analyzeProblem" /\ AnalysisCallFailed /\ FailedBeforeOnSameText)
    => ret = arg.before.ret

C18_Witness ==
  /\ op = "analyzeProblem"
  /\ AnalysisCallFailed
  /\ FailedBeforeOnSameText
  /\ arg.before.source # arg.source
  /\ arg.before.svc # svc
  /\ Len(arg.text) > SummaryLimit
  /\ ~ret.threw
  /\ ret = arg.before.ret

(***************************************************************************)
(* More properties of the match scorer.                                    *)
(***************************************************************************)
\* The keywords of the stored problem, none when the column is null.
TheKeywords ==
  IF TheProblem.keywords = Null THEN <<>> ELSE TheProblem.keywords[1]

\* The keyword and the tag overlap: one contains the other, letter case
\* aside.
Overlap(keyword, tag) ==
  \/ includes(toLowerCase(tag), toLowerCase(keyword))
  \/ includes(toLowerCase(keyword), toLowerCase(tag))

\* The four terms of the match score for the i-th expert of the roster, as
\* the claim words them.
CategoryTerm(i) ==
  IF TheProblem.category # Null /\ HasTag(i, TheProblem.category[1])
    THEN 50 ELSE 0

KeywordTerm(i) ==
  15 * Cardinality({k \in 1..Len(TheKeywords) :
                      \E t \in 1..Len(entrepreneurs[i].expertise) :
                        Overlap(TheKeywords[k], entrepreneurs[i].expertise[t])})

DescriptionCategoryTerm(i) ==
  IF /\ TheProblem.category # Null
     /\ includes(toLowerCase(entrepreneurs[i].description),
                 toLowerCase(TheProblem.category[1]))
    THEN 20 ELSE 0

DescriptionKeywordTerm(i) ==
  10 * Cardinality({k \in 1..Len(TheKeywords) :
                      includes(toLowerCase(entrepreneurs[i].description),
                               toLowerCase(TheKeywords[k]))})

ClaimedScore(i) ==
  CategoryTerm(i) + KeywordTerm(i) + DescriptionCategoryTerm(i)
    + DescriptionKeywordTerm(i)

\* C19: the match score of every expert is the sum of 50 for a non-null
\* category that is one of the expertise tags, 15 for each keyword that
\* overlaps a tag, 20 for a description that contains the category and 10
\* for each keyword the description contains, and of nothing else; an
\* expert left out of the result has the sum 0.
C19_ScoreFormula ==
  (op = "getMatchingEntrepreneurs" /\ Known) =>
    \A i \in 1..Len(entrepreneurs) :
      IF \E j \in 1..Len(ret.value) : ret.value[j].id = entrepreneurs[i].id
        THEN \A j \in 1..Len(ret.value) :
               ret.value[j].id = entrepreneurs[i].id
                 => ret.value[j].matchScore = ClaimedScore(i)
        ELSE ClaimedScore(i) = 0

\* The amounts the four signals added to the score of the expert with the
\* given id: category, keyword overlap, description-category and
\* description-keyword.
PartsOf(id) ==
  ScoreEntrepreneur(TheProblem, entrepreneurs[RosterIndex(id)]).parts

\* How each signal's reason begins, in the order of the signals.
ReasonPrefixes ==
  <<"Expertise in ", "Keywords: ", "Experience in ", "Background in ">>

\* The signals among the four that added a positive amount, in order.
FiredSignals(id) ==
  SelectSeq(<<1, 2, 3, 4>>, LAMBDA k : PartsOf(id)[k] > 0)

StartsWith(s, prefix) ==
  Len(s) >= Len(prefix) /\ SubSeq(s, 1, Len(prefix)) = prefix

\* C20: the reasons of every expert in the result are one entry for each
\* signal that added a positive amount to the score, in the order category,
\* keyword overlap, description-category, description-keyword, so between
\* one and four entries, and no entry for a signal that added nothing.
C20_OneReasonPerSignal ==
  (op = "getMatchingEntrepreneurs" /\ Known) =>
    \A j \in 1..Len(ret.value) :
      LET reasons == ret.value[j].matchReasons
          fired   == FiredSignals(ret.value[j].id)
      IN  /\ Len(reasons) \in 1..4
          /\ Len(reasons) = Len(fired)
          /\ \A r \in 1..Len(fired) :
               StartsWith(reasons[r], ReasonPrefixes[fired[r]])

C20_Witness ==
  /\ op = "getMatchingEntrepreneurs"
  /\ Known
  /\ \E j \in 1..Len(ret.value) :
       /\ PartsOf(ret.value[j].id) = <<50, 15, 20, 10>>
       /\ ret.value[j].matchReasons
            = <<"Expertise in Healthcare", "Keywords: road",
                "Experience in healthcare", "Background in road">>
  /\ \E j \in 1..Len(ret.value) :
       /\ PartsOf(ret.value[j].id) = <<0, 30, 0, 0>>
       /\ ret.value[j].matchReasons = <<"Keywords: road, tax">>

(***************************************************************************)
(* The repair and the filter of the service path of clusterProblems.       *)
(***************************************************************************)
\* The service answered an array of clusters, each with its problemIds.
ClusterListParsed ==
  /\ svc.kind = "json"
  /\ svc.isArray
  /\ \A c \in 1..Len(svc.value) : "problemIds" \in DOMAIN svc.value[c]

\* The id occurs in a cluster of the service's answer.
NamedByService(id) ==
  \E c \in 1..Len(svc.value) :
    \E i \in 1..Len(svc.value[c].problemIds) :
      svc.value[c].problemIds[i] = id

\* The input ids that occur in no cluster of the answer, in input order.
LeftOverIds ==
  SelectSeq([i \in 1..Len(arg) |-> arg[i].id],
            LAMBDA id : ~NamedByService(id))

\* The clusters of the answer that have a member, in the answer's order.
ServiceClustersKept ==
  SelectSeq(svc.value, LAMBDA c : c.problemIds # <<>>)

\* C21: for 3 or more problems and a parsed cluster list, when some input
\* ids occur in no returned cluster exactly one cluster named
\* "Miscellaneous Issues" is appended, holding exactly those ids, each
\* once, with innovation gap 5; when every input id occurs, none is
\* appended.
C21_MiscellaneousRepair ==
  (op = "clusterProblems" /\ Len(arg) >= 3 /\ ClusterListParsed) =>
    /\ ~ret.threw
    /\ IF LeftOverIds # <<>>
         THEN /\ Len(ret.value) = Len(ServiceClustersKept) + 1
              /\ SubSeq(ret.value, 1, Len(ret.value) - 1)
                   = ServiceClustersKept
              /\ ret.value[Len(ret.value)].clusterName
                   = "Miscellaneous Issues"
              /\ ret.value[Len(ret.value)].problemIds = LeftOverIds
              /\ ret.value[Len(ret.value)].innovationGaps = 5
         ELSE ret.value = ServiceClustersKept

C21_Witness ==
  /\ op = "clusterProblems"
  /\ Len(arg) = 3
  /\ ClusterListParsed
  /\ Len(svc.value) = 2
  /\ LeftOverIds = <<"p2", "p3">>
  /\ Len(ret.value) = 2
  /\ ret.value[2].problemIds = <<"p2", "p3">>
  /\ ret.value[2].clusterName = "Miscellaneous Issues"

\* C22: no cluster clusterProblems returns has an empty problemIds list, on
\* the small-input path, on the service path and on the fallback path.
C22_NoEmptyCluster ==
  op = "clusterProblems" =>
    /\ ~ret.threw
    /\ \A c \in 1..Len(ret.value) :
         /\ "problemIds" \in DOMAIN ret.value[c]
         /\ Len(ret.value[c].problemIds) >= 1

\* The service answered a cluster without members next to one with a
\* member, and only the second is returned.
C22_Witness ==
  /\ op = "clusterProblems"
  /\ Len(arg) = 3
  /\ ClusterListParsed
  /\ Len(svc.value) = 2
  /\ svc.value[1].problemIds = <<>>
  /\ svc.value[2].problemIds = <<"p1">>
  /\ Len(ret.value) = 2
  /\ ret.value[1].problemIds = <<"p1">>
  /\ ret.value[2].problemIds = <<"p2", "p3">>

\* The problem has a first keyword to be named after; an empty string in
\* first place is read as no keyword.
HasFirstKeyword(problem) ==
  problem.keywords # <<>> /\ problem.keywords[1] # ""

\* C23: for fewer than 3 problems the i-th cluster is named after the first
\* keyword of the i-th problem, or "Miscellaneous Issues" when it has none,
\* its themes are the problem's first keywords in order, three at most, and
\* its innovation gap is 7.
C23_SmallInputNaming ==
  (op = "clusterProblems" /\ Len(arg) < 3) =>
    /\ ~ret.threw
    /\ Len(ret.value) = Len(arg)
    /\ \A i \in 1..Len(arg) :
         /\ ret.value[i].clusterName
              = (IF HasFirstKeyword(arg[i]) THEN arg[i].keywords[1]
                 ELSE "Miscellaneous Issues")
         /\ Len(ret.value[i].commonThemes)
              = (IF Len(arg[i].keywords) <= 3 THEN Len(arg[i].keywords)
                 ELSE 3)
         /\ \A k \in 1..Len(ret.value[i].commonThemes) :
              ret.value[i].commonThemes[k] = arg[i].keywords[k]
         /\ ret.value[i].innovationGaps = 7

C23_Witness ==
  /\ op = "clusterProblems"
  /\ Len(arg) = 2
  /\ Len(arg[1].keywords) = 4
  /\ arg[2].keywords = <<>>
  /\ ret.value[1].clusterName = "health"
  /\ ret.value[1].commonThemes = <<"health", "road", "school">>
  /\ ret.value[2].clusterName = "Miscellaneous Issues"
  /\ ret.value[2].commonThemes = <<>>
  /\ ret.value[2].innovationGaps = 7

(***************************************************************************)
(* The two components that call the external service, side by side.        *)
(***************************************************************************)
InitCalls == Init

NextCalls == AnalyzeProblem \/ ClusterProblems

SpecCalls == InitCalls /\ [][NextCalls]_vars

\* C24: one invocation of analyzeProblem or of clusterProblems calls the
\* external service at most once; after a failed call the answer is the
\* local fallback, with that one call made.
C24_AtMostOneCall ==
  /\ op = "analyzeProblem" =>
       /\ calls <= 1
       /\ AnalysisCallFailed =>
            (calls = 1 /\ ~ret.threw /\ ret.value.category = "Other")
  /\ op = "clusterProblems" =>
       /\ calls <= 1
       /\ (Len(arg) >= 3 /\ svc.kind \in {"throw", "empty", "notjson"}) =>
            /\ calls = 1
            /\ ~ret.threw
            /\ \A c \in 1..Len(ret.value) :
                 ret.value[c].innovationGaps = FallbackGap

C24_Witness ==
  /\ op = "analyzeProblem"
  /\ svc.kind = "throw"
  /\ calls = 1
  /\ ~ret.threw
  /\ ret.value.keywords = <<>>

(***************************************************************************)
(* The feed ingestion adapter on feeds with more kinds of posts.           *)
(***************************************************************************)
MaxPosts == 2

\* The posts of one subreddit: a link post without selftext, an empty
\* selftext, one of exactly 50 characters, two that the filter accepts,
\* from different authors, and two long ones that were removed or deleted.
FeedPosts ==
  {[title |-> "Title", score |-> 12, subreddit |-> "LifeProTips",
    author |-> "ann"],
   Post(""),
   RejectedPost,
   AcceptedPost,
   [title |-> "Another title", selftext |-> TextOfLen(MinSelftextLength + 2),
    score |-> 0, subreddit |-> "LifeProTips", author |-> "bob",
    author_comment_karma |-> 4],
   Post(TextOfLen(MinSelftextLength + 1) \o " [removed]"),
   Post("[deleted] " \o TextOfLen(MinSelftextLength + 1))}

\* fetchRedditData on one subreddit whose fetch answers the given posts.
FetchPosts ==
  /\ op = "idle"
  /\ \E posts \in SeqsUpTo(FeedPosts, MaxPosts) :
       LET feed == <<[kind |-> "ok", posts |-> posts]>>
       IN  /\ op' = "fetchRedditData"
           /\ arg' = feed
           /\ ret' = [threw |-> FALSE, value |-> fetchRedditData(feed)]
  /\ svc' = <<>>
  /\ calls' = 0
  /\ UNCHANGED <<problems, entrepreneurs, votes>>

\* POST /api/load-reddit-data on such a subreddit.
LoadPosts ==
  /\ op = "idle"
  /\ \E posts \in SeqsUpTo(FeedPosts, MaxPosts) :
       LoadRequest(<<[kind |-> "ok", posts |-> posts]>>)
  /\ UNCHANGED <<entrepreneurs, votes>>

MaxFaultyChannels == 3

SubredditNames ==
  <<"LifeProTips", "mildlyinfuriating", "YouShouldKnow", "AskReddit",
    "Showerthoughts">>

\* What fetching the subreddit of the given name can give: the fetch
\* throws, the status is not ok, or the answer holds no post, one accepted
\* post, an accepted post after a rejected one, or an accepted post
\* followed by a wrapper without data.
ChannelsOf(subreddit) ==
  LET accepted == [AcceptedPost EXCEPT !.subreddit = subreddit]
      rejected == [RejectedPost EXCEPT !.subreddit = subreddit]
  IN  {[kind |-> "throw"], [kind |-> "notok"],
       [kind |-> "ok", posts |-> <<>>],
       [kind |-> "ok", posts |-> <<accepted>>],
       [kind |-> "ok", posts |-> <<rejected, accepted>>],
       [kind |-> "broken", posts |-> <<accepted>>]}

\* The feeds of up to MaxFaultyChannels subreddits, the i-th with the i-th
\* name.
FaultyFeeds ==
  UNION {{feed \in [1..n -> UNION {ChannelsOf(SubredditNames[i]) :
                                     i \in 1..n}] :
            \A i \in 1..n : feed[i] \in ChannelsOf(SubredditNames[i])} :
           n \in 0..MaxFaultyChannels}

\* fetchRedditData on several subreddits.
FetchChannels ==
  /\ op = "idle"
  /\ \E feed \in FaultyFeeds :
       /\ op' = "fetchRedditData"
       /\ arg' = feed
       /\ ret' = [threw |-> FALSE, value |-> fetchRedditData(feed)]
  /\ svc' = <<>>
  /\ calls' = 0
  /\ UNCHANGED <<problems, entrepreneurs, votes>>

InitFeed == Init

NextFeed == FetchPosts \/ LoadPosts \/ FetchChannels

SpecFeed == InitFeed /\ [][NextFeed]_vars

\* The condition of the claim on one feed post: the text body is present,
\* is longer than 50 characters and contains neither marker.
BodyQualifies(post) ==
  /\ "selftext" \in DOMAIN post
  /\ Len(post.selftext) > 50
  /\ ~includes(post.selftext, "[removed]")
  /\ ~includes(post.selftext, "[deleted]")

\* The posts of the one subreddit of the feed, and those that qualify, in
\* feed order.
ThePosts == arg[1].posts
QualifyingPosts == SelectSeq(ThePosts, BodyQualifies)

\* C25: fetchRedditData emits a problem for exactly the posts whose text
\* body is present, longer than 50 characters and free of "[removed]" and
\* "[deleted]", in feed order; each emitted problem has source "Reddit",
\* summary, keywords and category null and processed false; and the feed
\* load calls the classifier for those posts only.
C25_FeedFilter ==
  /\ op = "fetchRedditData" /\ Len(arg) = 1 /\ arg[1].kind = "ok" =>
       /\ ~ret.threw
       /\ Len(ret.value) = Len(QualifyingPosts)
       /\ \A k \in 1..Len(ret.value) :
            /\ ret.value[k].originalText
                 = QualifyingPosts[k].title \o "\n\n"
                     \o QualifyingPosts[k].selftext
            /\ ret.value[k].authorUsername = QualifyingPosts[k].author
            /\ ret.value[k].source = "Reddit"
            /\ ret.value[k].summary = Null
            /\ ret.value[k].keywords = Null
            /\ ret.value[k].category = Null
            /\ ret.value[k].processed = FALSE
  /\ op = "loadRedditData" /\ Len(arg) = 1 /\ arg[1].kind = "ok" =>
       /\ calls = Len(QualifyingPosts)
       /\ \A r \in 1..Len(problems) :
            \E k \in 1..Len(QualifyingPosts) :
              problems[r].originalText
                = QualifyingPosts[k].title \o "\n\n"
                    \o QualifyingPosts[k].selftext

C25_Witness ==
  /\ op = "fetchRedditData"
  /\ Len(ThePosts) = 2
  /\ "selftext" \in DOMAIN ThePosts[1]
  /\ includes(ThePosts[1].selftext, "[removed]")
  /\ Len(ThePosts[1].selftext) > 50
  /\ ThePosts[2].author = "bob"
  /\ Len(ret.value) = 1
  /\ ret.value[1].authorUsername = "bob"
  /\ ret.value[1].authorKarma = 4
  /\ ret.value[1].summary = Null

(***************************************************************************)
(* Vote requests in flight together.  Each handler suspends at its awaits: *)
(* after the insert of the vote, and in updateProblemScore between the     *)
(* count and the update, which are two statements outside any transaction. *)
(* op[r] is the position of the r-th handler and ret[r] what it holds.     *)
(***************************************************************************)
MaxRequests == 2

\* The stored problems the votes are for: p1 from a submission, with score
\* 0, and p2 from the feed, with the score of its post.
VotedProblems ==
  ProcessFeed(PriorProblems(1), <<PostProblem(AcceptedPost)>>,
              <<StoreAnalysis>>, <<TRUE>>, 1, <<>>).table

VoteBodies == {[userIdentifier |-> "ann"], <<>>}

InitVote ==
  /\ op = [r \in 1..MaxRequests |-> "start"]
  /\ arg \in [1..MaxRequests ->
                [id : {"p1", "p2"}, body : VoteBodies]]
  /\ ret = [r \in 1..MaxRequests |-> <<>>]
  /\ svc = <<>>
  /\ calls = 0
  /\ problems = VotedProblems
  /\ entrepreneurs = <<>>
  /\ votes = <<>>

\* await storage.createVote({problemId: id, userIdentifier: ...})
VoteCreate(r) ==
  /\ op[r] = "start"
  /\ LET body == arg[r].body
         userIdentifier ==
           IF "userIdentifier" \in DOMAIN body /\ body.userIdentifier # ""
             THEN body.userIdentifier ELSE "anonymous"
         created == createVote(problems, votes,
                               [problemId |-> arg[r].id,
                                userIdentifier |-> userIdentifier])
     IN  /\ votes' = created.votes
         /\ IF created.threw
              THEN /\ op' = [op EXCEPT ![r] = "done"]
                   /\ ret' = [ret EXCEPT
                                ![r] = [status |-> 400,
                                        message |-> "Failed to create vote"]]
              ELSE /\ op' = [op EXCEPT ![r] = "created"]
                   /\ ret' = [ret EXCEPT ![r] = [vote |-> created.row]]
  /\ UNCHANGED <<arg, svc, calls, problems, entrepreneurs>>

\* The count of updateProblemScore, awaited.
VoteCount(r) ==
  /\ op[r] = "created"
  /\ op' = [op EXCEPT ![r] = "counted"]
  /\ ret' = [ret EXCEPT
               ![r] = [vote |-> ret[r].vote,
                       newScore |-> countVotes(votes, arg[r].id)]]
  /\ UNCHANGED <<arg, svc, calls, problems, entrepreneurs, votes>>

\* The update of updateProblemScore, awaited, and res.json.
VoteWrite(r) ==
  /\ op[r] = "counted"
  /\ LET written == setScore(problems, arg[r].id, ret[r].newScore)
     IN  /\ problems' = written.table
         /\ ret' = [ret EXCEPT
                      ![r] = [status |-> 200, vote |-> ret[r].vote,
                              problem |-> written.rows]]
  /\ op' = [op EXCEPT ![r] = "done"]
  /\ UNCHANGED <<arg, svc, calls, entrepreneurs, votes>>

NextVote ==
  \E r \in 1..MaxRequests : VoteCreate(r) \/ VoteCount(r) \/ VoteWrite(r)

SpecVote == InitVote /\ [][NextVote]_vars

\* The number of Vote records that reference the problem.
VotesFor(id) == Cardinality({v \in 1..Len(votes) : votes[v].problemId = id})

\* C26: once every vote request has completed, the stored score of each
\* problem that was voted for equals the number of Vote records that
\* reference it, in every interleaving of the requests' steps.
C26_ScoreIsVoteCount ==
  (\A r \in 1..MaxRequests : op[r] = "done") =>
    \A r \in 1..MaxRequests :
      \A i \in 1..Len(problems) :
        problems[i].id = arg[r].id => problems[i].score = VotesFor(arg[r].id)

\* The subreddit the i-th subreddit of the feed is fetched from, and the
\* items of the result that come from it, in order.
ItemsOfChannel(c) ==
  SelectSeq(ret.value, LAMBDA item : item.subreddit = SubredditNames[c])

ChannelOfItem(k) ==
  CHOOSE c \in 1..Len(arg) : ret.value[k].subreddit = SubredditNames[c]

\* C27: fetchRedditData does not raise on a feed fault: a subreddit whose
\* fetch throws or answers a status that is not ok contributes no item,
\* every other subreddit contributes its qualifying posts, before and after
\* a faulty one, and the items are in the order of the subreddits.
C27_FeedFaultTolerance ==
  op = "fetchRedditData" =>
    /\ ~ret.threw
    /\ \A c \in 1..Len(arg) :
         /\ arg[c].kind \in {"throw", "notok"} => ItemsOfChannel(c) = <<>>
         /\ arg[c].kind = "ok" =>
              Len(ItemsOfChannel(c))
                = Len(SelectSeq(arg[c].posts, BodyQualifies))
    /\ \A k \in 1..Len(ret.value) :
         \E c \in 1..Len(arg) :
           ret.value[k].subreddit = SubredditNames[c]
    /\ \A k \in 1..(Len(ret.value) - 1) :
         ChannelOfItem(k) <= ChannelOfItem(k + 1)

C27_Witness ==
  /\ op = "fetchRedditData"
  /\ Len(arg) = 3
  /\ arg[1].kind = "ok"
  /\ arg[2].kind = "throw"
  /\ arg[3].kind = "ok"
  /\ ~ret.threw
  /\ Len(ret.value) = 2
  /\ ret.value[1].subreddit = SubredditNames[1]
  /\ ret.value[2].subreddit = SubredditNames[3]

\* The id occurs in a cluster of the returned list.
Clustered(id) ==
  \E c \in 1..Len(ret.value) :
    /\ "problemIds" \in DOMAIN ret.value[c]
    /\ \E k \in 1..Len(ret.value[c].problemIds) :
         ret.value[c].problemIds[k] = id

\* C28: on the small-input path, the service path and the fallback path,
\* every input problem id occurs in at least one cluster of the list
\* clusterProblems returns, also when the service's answer names an id
\* more than once.
C28_EveryIdClustered ==
  op = "clusterProblems" =>
    /\ ~ret.threw
    /\ \A i \in 1..Len(arg) : Clustered(arg[i].id)

\* The service named p1 three times and p3 never: p1 stays in both of its
\* clusters and p3 is in the appended one.
C28_Witness ==
  /\ op = "clusterProblems"
  /\ Len(arg) = 3
  /\ ClusterListParsed
  /\ Len(svc.value) = 2
  /\ svc.value[1].problemIds = <<"p1", "p1">>
  /\ svc.value[2].problemIds = <<"p1", "p2">>
  /\ ~ret.threw
  /\ Len(ret.value) = 3
  /\ Occurrences("p1", ret.value) = 3
  /\ ret.value[3].problemIds = <<"p3">>
  /\ \A i \in 1..Len(arg) : Clustered(arg[i].id)

\* What analyzeProblem returned to the submission route for the request.
ClassifierOutput == analyzeProblem(arg.originalText, arg.source, svc).value

\* The submission route answered the stored row.
Submitted ==
  /\ op = "submitProblem"
  /\ ret.status = 200

\* C29: the row POST /api/problems stores has the summary, keywords and
\* category of the classifier's output and processed true; a summary,
\* keywords, category or processed of the request body is not stored.
C29_ClassifierOverridesBody ==
  Submitted =>
    /\ problems[Len(problems)] = ret.problem
    /\ ret.problem.summary = Column(ClassifierOutput, "summary")
    /\ ret.problem.keywords = Column(ClassifierOutput, "keywords")
    /\ ret.problem.category = Column(ClassifierOutput, "category")
    /\ ret.problem.processed = TRUE

\* The body carried its own summary, keywords, category and processed
\* false, and the stored row has the classifier's.
C29_Witness ==
  /\ Submitted
  /\ "summary" \in DOMAIN arg
  /\ arg.summary = "My own summary"
  /\ arg.keywords = <<"mine">>
  /\ arg.category = "Traffic"
  /\ arg.processed = FALSE
  /\ svc.kind = "json"
  /\ ret.problem.summary = Some("A short summary.")
  /\ ret.problem.keywords = Some(<<"road">>)
  /\ ret.problem.category = Some("Healthcare")
  /\ ret.problem.processed = TRUE
  /\ problems[Len(problems)] = ret.problem

\* The stored problem of the given id, if any.
Stored(table, id) == {i \in 1..Len(table) : table[i].id = id}

\* C30: a vote request for a stored problem that runs with no other vote
\* request in between succeeds, appends one vote record for that problem,
\* and leaves the problem's score equal to the number of its vote records,
\* the new one included, whatever the score was before; no other problem
\* changes.
C30_VoteSetsScoreToCount ==
  [][(op' = "vote" /\ Stored(problems, arg'.id) # {}) =>
       /\ ret'.status = 200
       /\ votes' = Append(votes, ret'.vote)
       /\ ret'.vote.problemId = arg'.id
       /\ Len(problems') = Len(problems)
       /\ \A i \in 1..Len(problems) :
            IF problems[i].id = arg'.id
              THEN /\ problems'[i].score = countVotes(votes, arg'.id) + 1
                   /\ problems'[i].score = countVotes(votes', arg'.id)
                   /\ problems'[i]
                        = [problems[i] EXCEPT !.score = problems'[i].score]
                   /\ ret'.problem = <<problems'[i]>>
              ELSE problems'[i] = problems[i]]_vars

\* The first vote for a problem the feed load stored with the score of its
\* post: the score is now 1.
C30_Witness ==
  /\ op = "vote"
  /\ ret.status = 200
  /\ Len(votes) = 1
  /\ votes[1].problemId = arg.id
  /\ \E i \in Stored(problems, arg.id) :
       /\ problems[i].source = "Reddit"
       /\ FromFeedPost([problems[i] EXCEPT !.score = AcceptedPost.score],
                       <<[kind |-> "ok", posts |-> <<AcceptedPost>>]>>)
       /\ AcceptedPost.score > 1
       /\ problems[i].score = 1
       /\ ret.problem = <<problems[i]>>

====
